---- MODULE Spec2Model ----
(***************************************************************************)
(* Model of scripts/export_data.py: the export of parlamento.db to the     *)
(* four JSON files diputados.json, bills.json, embeddings.json and         *)
(* metadata.json.                                                          *)
(*                                                                         *)
(* Conventions.                                                            *)
(*  - A text value that the script inspects character by character (vote   *)
(*    labels, resultado_final, etapa, origen, titulo, names that are       *)
(*    sorted) is a sequence of one-character strings.                      *)
(*  - A nullable column holds None (SQL NULL / Python None) or Some(v).    *)
(*  - A date 'YYYY-MM-DD' is the integer YYYYMMDD; the integers order as   *)
(*    the strings do under SQLite's text comparison.                       *)
(*  - A SELECT returns its rows in any order its ORDER BY allows: rows     *)
(*    that tie, and all rows of a SELECT without ORDER BY, come in an      *)
(*    unspecified order, chosen anew by every execution.                   *)
(*  - A JSON file is its parsed content; json.dump is injective on the     *)
(*    values used here, a dict being written in insertion order.           *)
(***************************************************************************)
EXTENDS Integers, Sequences, FiniteSets, TLC

VARIABLES
    db,              \* the content of parlamento.db (DB_PATH); no exporter writes to it
    pc,              \* where main stands: the exporter it calls next, "done", "failed"
    run,             \* how many times the script has been started
    files,           \* the four files of OUTPUT_DIR
    prev,            \* the four files as the previous run left them
    prevOk,          \* whether the previous run was complete
    parlamentarios,  \* main's local: the list export_parlamentarios returned
    bills,           \* main's local: the list export_bills returned
    written,         \* the files this run has written
    log              \* the exporters this run has called, with how each ended

vars == <<db, pc, run, files, prev, prevOk, parlamentarios, bills, written, log>>

(***************************************************************************)
(* Bounds of the model                                                     *)
(***************************************************************************)
\* largest number of votes of the legislator who votes in every session
MaxBulk == 22
\* number of times main is run against the unchanged store
MaxRuns == 2
\* longest stored title is TITLE_LIMIT + MaxOver characters
MaxOver == 2

(***************************************************************************)
(* Program constants                                                       *)
(***************************************************************************)
\* WHERE sv.fecha >= '2024-01-01'
CUTOFF == 20240101
\* LIMIT 20
RECENT_LIMIT == 20
\* titulo[:100], len(titulo) > 100
TITLE_LIMIT == 100
\* materias[:100]
MATERIAS_LIMIT == 100
\* "cohesion": 0.85 and 0.80, in hundredths
COHESION_DEFAULT == 85
COHESION_SYNTHETIC == 80

(***************************************************************************)
(* Python and SQL values                                                   *)
(***************************************************************************)
None == <<>>
Some(v) == <<v>>
IsNull(o) == o = <<>>
Val(o) == o[1]

\* Python truthiness of a nullable text value: not None and not ''
Truthy(o) == ~IsNull(o) /\ Val(o) # <<>>
\* Python `o or default'
OrElse(o, default) == IF Truthy(o) THEN Val(o) ELSE default
\* SQL COALESCE(o, default)
Coalesce(o, default) == IF IsNull(o) THEN default ELSE Val(o)

Min(a, b) == IF a <= b THEN a ELSE b

UPPER == <<"A", "B", "C", "D", "E", "F", "G", "H", "I", "J", "K", "L", "M", "N", "O", "P", "Q", "R", "S", "T", "U", "V", "W", "X", "Y", "Z">>
LOWER == <<"a", "b", "c", "d", "e", "f", "g", "h", "i", "j", "k", "l", "m", "n", "o", "p", "q", "r", "s", "t", "u", "v", "w", "x", "y", "z">>
\* the characters used, in code-point order
ASCII == <<" ", "A", "B", "C", "D", "E", "F", "G", "H", "I", "J", "K", "L", "M", "N", "O", "P", "Q", "R", "S", "T", "U", "V", "W", "X", "Y", "Z", "_", "a", "b", "c", "d", "e", "f", "g", "h", "i", "j", "k", "l", "m", "n", "o", "p", "q", "r", "s", "t", "u", "v", "w", "x", "y", "z">>
DIGITS == <<"0", "1", "2", "3", "4", "5", "6", "7", "8", "9">>

IndexOf(c, s) == CHOOSE i \in 1..Len(s) : s[i] = c
IsIn(c, s) == \E i \in 1..Len(s) : s[i] = c

\* str.lower()
LowerChar(c) == IF IsIn(c, UPPER) THEN LOWER[IndexOf(c, UPPER)] ELSE c
Lower(s) == [i \in 1..Len(s) |-> LowerChar(s[i])]
\* str.replace(" ", "_")
ReplaceSpaces(s) == [i \in 1..Len(s) |-> IF s[i] = " " THEN "_" ELSE s[i]]
\* needle in hay
Contains(needle, hay) ==
    \E i \in 0..(Len(hay) - Len(needle)) : SubSeq(hay, i + 1, i + Len(needle)) = needle

\* comparison of two texts under SQLite's BINARY collation
Code(c) == IndexOf(c, ASCII)
TextLess(a, b) ==
    \E i \in 1..(Min(Len(a), Len(b)) + 1) :
        /\ \A j \in 1..(i - 1) : a[j] = b[j]
        /\ \/ i = Len(a) + 1 /\ i <= Len(b)
           \/ i <= Len(a) /\ i <= Len(b) /\ Code(a[i]) < Code(b[i])

RECURSIVE Perms(_)
Perms(S) ==
    IF S = {} THEN {<<>>}
    ELSE UNION {{<<x>> \o p : p \in Perms(S \ {x})} : x \in S}

\* the orders in which a SELECT ... ORDER BY key DESC may return the rows S
RECURSIVE OrdersDesc(_, _)
OrdersDesc(S, key) ==
    IF S = {} THEN {<<>>}
    ELSE LET top == CHOOSE x \in S : \A y \in S : key[y] <= key[x]
             G == {x \in S : key[x] = key[top]}
         IN  {p \o r : p \in Perms(G), r \in OrdersDesc(S \ G, key)}

\* the orders in which a SELECT ... ORDER BY key (ascending) may return the rows S
RECURSIVE OrdersAsc(_, _)
OrdersAsc(S, key) ==
    IF S = {} THEN {<<>>}
    ELSE LET bot == CHOOSE x \in S : \A y \in S : key[x] <= key[y]
             G == {x \in S : key[x] = key[bot]}
         IN  {p \o r : p \in Perms(G), r \in OrdersAsc(S \ G, key)}

\* the sequences whose i-th element is drawn from sets[i]
RECURSIVE SeqProduct(_)
SeqProduct(sets) ==
    IF sets = <<>> THEN {<<>>}
    ELSE {<<x>> \o r : x \in Head(sets), r \in SeqProduct(Tail(sets))}

\* list[:n]
Take(s, n) == SubSeq(s, 1, Min(n, Len(s)))

(***************************************************************************)
(* Text literals of the script                                             *)
(***************************************************************************)
favor == <<"f", "a", "v", "o", "r">>
contra == <<"c", "o", "n", "t", "r", "a">>
absten == <<"a", "b", "s", "t", "e", "n">>
pareo == <<"p", "a", "r", "e", "o">>
aprob == <<"a", "p", "r", "o", "b">>
rechaz == <<"r", "e", "c", "h", "a", "z">>
archiv == <<"a", "r", "c", "h", "i", "v">>
primer == <<"p", "r", "i", "m", "e", "r">>
segundo == <<"s", "e", "g", "u", "n", "d", "o">>
tercer == <<"t", "e", "r", "c", "e", "r">>
comision == <<"c", "o", "m", "i", "s", "i", "o", "n">>
senado == <<"s", "e", "n", "a", "d", "o">>
ELLIPSIS == <<".", ".", ".">>
INDEPENDIENTE == <<"I", "n", "d", "e", "p", "e", "n", "d", "i", "e", "n", "t", "e">>
NO_ESPECIFICADA == <<"N", "o", " ", "e", "s", "p", "e", "c", "i", "f", "i", "c", "a", "d", "a">>
MOCION == <<"M", "o", "c", "i", "o", "n">>

(***************************************************************************)
(* Text values stored in the database                                      *)
(***************************************************************************)
V_AFavor == <<"A", " ", "F", "a", "v", "o", "r">>
V_afavor == <<"a", " ", "f", "a", "v", "o", "r">>
V_EnContra == <<"E", "n", " ", "C", "o", "n", "t", "r", "a">>
V_Abstencion == <<"A", "b", "s", "t", "e", "n", "c", "i", "o", "n">>
V_Pareo == <<"P", "a", "r", "e", "o">>
V_nulo == <<"n", "u", "l", "o">>
V_Both == <<"c", "o", "n", "t", "r", "a", " ", "e", "l", " ", "f", "a", "v", "o", "r">>
R_Aprobado == <<"A", "p", "r", "o", "b", "a", "d", "o">>
R_RECHAZADO == <<"R", "E", "C", "H", "A", "Z", "A", "D", "O">>
R_Archivado == <<"A", "r", "c", "h", "i", "v", "a", "d", "o">>
R_Retirado == <<"R", "e", "t", "i", "r", "a", "d", "o">>
E_Primer == <<"P", "r", "i", "m", "e", "r">>
E_SEGUNDO == <<"S", "E", "G", "U", "N", "D", "O">>
E_Tercer == <<"T", "e", "r", "c", "e", "r">>
E_Comision == <<"C", "o", "m", "i", "s", "i", "o", "n">>
E_Sala == <<"S", "a", "l", "a">>
O_Senado == <<"S", "e", "n", "a", "d", "o">>
O_Camara == <<"C", "a", "m", "a", "r", "a">>
N_Ana == <<"A", "n", "a">>
N_Bea == <<"B", "e", "a">>
N_Caro == <<"C", "a", "r", "o">>
M_Salud == <<"S", "a", "l", "u", "d">>
M_Agro == <<"A", "g", "r", "o">>
J_12 == <<"[", "1", ",", "2", "]">>
J_3 == <<"[", "3", "]">>
J_bad == <<"[", "1", ",">>
T_Res == <<"R", "e", "s">>
T_Chars == <<"L", "e", "y", " ", "d", "e", "l">>
P_PS == <<"P", "S">>
P_RN == <<"R", "e", "n", "o", "v", "a", "c", "i", "o", "n">>
P_Abogada == <<"A", "b", "o", "g", "a", "d", "a">>
I_Mensaje == <<"M", "e", "n", "s", "a", "j", "e">>

(***************************************************************************)
(* The store: parlamento.db                                                *)
(*                                                                         *)
(* The dimension tables are keyed by their id column.  Nothing else is     *)
(* assumed: a vote may name a session that has no row, a session may name  *)
(* a bill that has no row, a legislator may name a party that has no row.  *)
(***************************************************************************)
MpIds == {1, 2, 3}
BillIds == {1, 2, 3}
\* a bill id that has no row in bills
OrphanBill == Cardinality(BillIds) + 1
\* sessions 1..MaxBulk, then a session before the cutoff and one of a missing bill
SesOld == MaxBulk + 1
SesOrphan == MaxBulk + 2
\* a session id that has no row in sesiones_votacion
SesMissing == MaxBulk + 3

\* sesiones_votacion: sessions 1..3 are held on the cutoff day itself
sesiones_votacion ==
    [s \in 1..(MaxBulk + 2) |->
        IF s = SesOld THEN [bill_id |-> 1, fecha |-> CUTOFF - 8870]
        ELSE IF s = SesOrphan THEN [bill_id |-> OrphanBill, fecha |-> CUTOFF + 1]
        ELSE [bill_id |-> (s % 2) + 1,
              fecha |-> IF s <= 3 THEN CUTOFF ELSE CUTOFF + s]]

\* votos_parlamentario: the rows a store may hold besides the bulk rows
VotePool ==
    << [mp_uid |-> 1, sesion_votacion_id |-> 5, voto |-> V_AFavor],
       [mp_uid |-> 2, sesion_votacion_id |-> 4, voto |-> V_AFavor],
       [mp_uid |-> 2, sesion_votacion_id |-> 5, voto |-> V_afavor],
       [mp_uid |-> 2, sesion_votacion_id |-> SesOld, voto |-> V_nulo],
       [mp_uid |-> 3, sesion_votacion_id |-> SesOld, voto |-> V_Pareo],
       [mp_uid |-> 3, sesion_votacion_id |-> SesOrphan, voto |-> V_Abstencion],
       [mp_uid |-> 3, sesion_votacion_id |-> SesMissing, voto |-> V_nulo],
       [mp_uid |-> 3, sesion_votacion_id |-> 1, voto |-> V_Both] >>

BulkLabels == <<V_afavor, V_EnContra, V_nulo, V_AFavor>>

\* legislator 1 votes in each of the sessions 1..n
BulkVotes(n) ==
    { [rowid |-> Len(VotePool) + k, mp_uid |-> 1, sesion_votacion_id |-> k,
       voto |-> BulkLabels[(k % Len(BulkLabels)) + 1]] : k \in 1..n }

PoolVotes(S) ==
    { [rowid |-> i, mp_uid |-> VotePool[i].mp_uid,
       sesion_votacion_id |-> VotePool[i].sesion_votacion_id,
       voto |-> VotePool[i].voto] : i \in S }

PartyDirs ==
    << [i \in {1, 2} |-> IF i = 1 THEN [nombre_partido |-> Some(P_PS), sigla |-> "PS"]
                         ELSE [nombre_partido |-> Some(P_RN), sigla |-> "RN"]],
       [i \in {1, 2} |-> IF i = 1 THEN [nombre_partido |-> Some(P_PS), sigla |-> "PS"]
                         ELSE [nombre_partido |-> Some(INDEPENDIENTE), sigla |-> "IND"]],
       [i \in {1, 2} |-> IF i = 1 THEN [nombre_partido |-> Some(P_PS), sigla |-> "PS"]
                         ELSE [nombre_partido |-> Some(P_PS), sigla |-> "PS2"]],
       [i \in {1, 2} |-> IF i = 1 THEN [nombre_partido |-> None, sigla |-> "X"]
                         ELSE [nombre_partido |-> Some(P_RN), sigla |-> "RN"]] >>

\* a party id that has no row in dim_partidos
OrphanParty == Cardinality(DOMAIN PartyDirs[1]) + 5

\* a stored title of n characters
Title(n) == [i \in 1..n |-> T_Chars[((i - 1) % Len(T_Chars)) + 1]]

MateriaPool ==
    << [bill_id |-> 1, materia_id |-> 1],
       [bill_id |-> 1, materia_id |-> 2],
       [bill_id |-> 2, materia_id |-> 1],
       [bill_id |-> 1, materia_id |-> 3],
       [bill_id |-> OrphanBill, materia_id |-> 2],
       [bill_id |-> 2, materia_id |-> 4] >>

\* materias 1 and 3 carry the same name; materia 4 has no row
dim_materias ==
    [m \in {1, 2, 3} |-> IF m = 2 THEN [nombre |-> M_Agro] ELSE [nombre |-> M_Salud]]

EmbeddingPool ==
    << [bill_id |-> 1, embedding |-> J_12],
       [bill_id |-> 2, embedding |-> J_3],
       [bill_id |-> 3, embedding |-> J_bad] >>

\* the store of scenario P
Store(P) ==
    [ dim_parlamentario |->
        [m \in MpIds |->
            IF m = 1 THEN [nombre_completo |-> N_Ana, partido_militante_actual_id |-> Some(1),
                           url_foto |-> Some("ana.jpg"), profesion |-> Some(P_Abogada)]
            ELSE IF m = 2 THEN [nombre_completo |-> IF P.sameName THEN N_Ana ELSE N_Bea,
                                partido_militante_actual_id |-> P.mp2party,
                                url_foto |-> None, profesion |-> None]
            ELSE [nombre_completo |-> N_Caro, partido_militante_actual_id |-> Some(2),
                  url_foto |-> Some("caro.jpg"), profesion |-> Some(<<>>)]],
      dim_partidos |-> PartyDirs[P.partyDir],
      sesiones_votacion |-> sesiones_votacion,
      votos_parlamentario |-> PoolVotes(P.votes) \cup BulkVotes(P.bulk),
      bills |->
        [b \in BillIds |->
            IF b = 1 THEN [titulo |-> Title(P.tlen), resumen |-> None,
                           fecha_ingreso |-> CUTOFF + 2, etapa |-> P.etapa,
                           resultado_final |-> P.resultado, iniciativa |-> Some(I_Mensaje),
                           origen |-> P.origen]
            ELSE IF b = 2 THEN [titulo |-> T_Res, resumen |-> Some(T_Chars),
                                fecha_ingreso |-> IF P.sameDates THEN CUTOFF + 2 ELSE CUTOFF + 1,
                                etapa |-> Some(E_Primer), resultado_final |-> None,
                                iniciativa |-> None, origen |-> Some(O_Senado)]
            ELSE [titulo |-> T_Res, resumen |-> Some(<<>>), fecha_ingreso |-> CUTOFF,
                  etapa |-> None, resultado_final |-> Some(R_RECHAZADO),
                  iniciativa |-> Some(<<>>), origen |-> None]],
      bill_materias |->
        { [rowid |-> i, bill_id |-> MateriaPool[i].bill_id,
           materia_id |-> MateriaPool[i].materia_id] : i \in P.materias },
      dim_materias |-> dim_materias,
      bill_embeddings |->
        { [rowid |-> i, bill_id |-> EmbeddingPool[i].bill_id,
           embedding |-> EmbeddingPool[i].embedding] : i \in P.embeddings } ]

Resultados == {None, Some(<<>>), Some(R_Aprobado), Some(R_RECHAZADO), Some(R_Archivado), Some(R_Retirado)}
Etapas == {None, Some(<<>>), Some(E_Primer), Some(E_SEGUNDO), Some(E_Tercer), Some(E_Comision), Some(E_Sala)}
Origenes == {None, Some(O_Senado), Some(O_Camara)}

BaseScenario ==
    [ votes |-> {1, 2}, bulk |-> 0, sameName |-> FALSE, partyDir |-> 1, mp2party |-> None,
      resultado |-> None, etapa |-> Some(E_Primer), origen |-> None, sameDates |-> FALSE,
      tlen |-> 3, materias |-> {1}, embeddings |-> {1} ]

\* the stores the export is run against: each family varies some tables of the base store
Scenarios ==
    {[BaseScenario EXCEPT !.votes = S] : S \in SUBSET (1..Len(VotePool))}
    \cup {[BaseScenario EXCEPT !.bulk = n, !.tlen = t, !.votes = {2}] :
            n \in (RECENT_LIMIT - 1)..MaxBulk, t \in {3, TITLE_LIMIT + 1}}
    \cup {[BaseScenario EXCEPT !.tlen = t] : t \in (TITLE_LIMIT - 1)..(TITLE_LIMIT + MaxOver)}
    \cup {[BaseScenario EXCEPT !.votes = {1, 2, Len(VotePool)}, !.sameName = n, !.partyDir = d, !.mp2party = p] :
            n \in BOOLEAN, d \in 1..Len(PartyDirs), p \in {None, Some(2), Some(OrphanParty)}}
    \cup {[BaseScenario EXCEPT !.resultado = r, !.etapa = e, !.sameDates = s] :
            r \in Resultados, e \in Etapas, s \in BOOLEAN}
    \cup {[BaseScenario EXCEPT !.origen = o] : o \in Origenes}
    \cup {[BaseScenario EXCEPT !.materias = S] : S \in SUBSET (1..Len(MateriaPool))}
    \cup {[BaseScenario EXCEPT !.embeddings = S] : S \in SUBSET (1..Len(EmbeddingPool))}

(***************************************************************************)
(* export_parlamentarios                                                   *)
(***************************************************************************)
\* the cutoff day itself left out: WHERE sv.fecha > '2024-01-01'
ActiveFilterAfter(sv) == sv.fecha > CUTOFF

\* WHERE sv.fecha >= '2024-01-01'
ActiveFilter(sv) == sv.fecha >= CUTOFF

\* LEFT JOIN dim_partidos d ON ... ; COALESCE(d.nombre_partido, 'Independiente')
PartidoOf(d, p) ==
    LET pid == p.partido_militante_actual_id
    IN  IF ~IsNull(pid) /\ Val(pid) \in DOMAIN d.dim_partidos
        THEN Coalesce(d.dim_partidos[Val(pid)].nombre_partido, INDEPENDIENTE)
        ELSE INDEPENDIENTE

\* the rows of SELECT DISTINCT p.mp_uid, ... WHERE sv.fecha >= '2024-01-01'
ActiveRows(d) ==
    { [mp_uid |-> v.mp_uid,
       nombre_completo |-> d.dim_parlamentario[v.mp_uid].nombre_completo,
       partido |-> PartidoOf(d, d.dim_parlamentario[v.mp_uid]),
       url_foto |-> d.dim_parlamentario[v.mp_uid].url_foto,
       profesion |-> d.dim_parlamentario[v.mp_uid].profesion] :
      v \in { w \in d.votos_parlamentario :
                /\ w.mp_uid \in DOMAIN d.dim_parlamentario
                /\ w.sesion_votacion_id \in DOMAIN d.sesiones_votacion
                /\ ActiveFilter(d.sesiones_votacion[w.sesion_votacion_id]) } }

\* ORDER BY p.nombre_completo
NameRank(S) ==
    [r \in S |-> Cardinality({q \in S : TextLess(q.nombre_completo, r.nombre_completo)})]
ActiveOrders(d) == OrdersAsc(ActiveRows(d), NameRank(ActiveRows(d)))

\* SELECT voto, COUNT(*) FROM votos_parlamentario WHERE mp_uid = ? GROUP BY voto
VoteGroups(d, mp) ==
    LET mine == {v \in d.votos_parlamentario : v.mp_uid = mp}
    IN  { [voto |-> l, count |-> Cardinality({v \in mine : v.voto = l})] :
          l \in {v.voto : v \in mine} }

\* the if/elif chain on voto_lower: the category of a raw label, "none" if no branch is taken
Classify(voto) ==
    LET voto_lower == ReplaceSpaces(Lower(voto))
    IN  IF Contains(favor, voto_lower) THEN "a_favor"
        ELSE IF Contains(contra, voto_lower) THEN "en_contra"
        ELSE IF Contains(absten, voto_lower) THEN "abstencion"
        ELSE IF Contains(pareo, voto_lower) THEN "pareo"
        ELSE "none"

\* stats[category] = count
Tally(stats, category, count) == [stats EXCEPT ![category] = count]

\* for voto, count in cursor.fetchall(): ...
RECURSIVE TallyLoop(_, _)
TallyLoop(stats, groups) ==
    IF groups = <<>> THEN stats
    ELSE LET g == Head(groups)
             c == Classify(g.voto)
         IN  TallyLoop(IF c = "none" THEN stats ELSE Tally(stats, c, g.count), Tail(groups))

ZeroStats == [a_favor |-> 0, en_contra |-> 0, abstencion |-> 0, pareo |-> 0]

\* a total that leaves the paired votes out
TotalWithoutPareo(stats) == stats.a_favor + stats.en_contra + stats.abstencion

\* total = sum(stats.values())
Total(stats) == stats.a_favor + stats.en_contra + stats.abstencion + stats.pareo

\* p["estadisticas_voto"], for each order in which the groups may be returned
EstadisticasVoto(d, mp) ==
    { [total |-> Total(s), a_favor |-> s.a_favor, en_contra |-> s.en_contra,
       abstencion |-> s.abstencion, pareo |-> s.pareo] :
      s \in {TallyLoop(ZeroStats, o) : o \in Perms(VoteGroups(d, mp))} }

\* the rows of the recent-votes SELECT before ORDER BY and LIMIT: the two JOINs
RecentRows(d, mp) ==
    { [rowid |-> v.rowid,
       bill_id |-> d.sesiones_votacion[v.sesion_votacion_id].bill_id,
       titulo |-> d.bills[d.sesiones_votacion[v.sesion_votacion_id].bill_id].titulo,
       voto |-> v.voto,
       fecha |-> d.sesiones_votacion[v.sesion_votacion_id].fecha] :
      v \in { w \in d.votos_parlamentario :
                /\ w.mp_uid = mp
                /\ w.sesion_votacion_id \in DOMAIN d.sesiones_votacion
                /\ d.sesiones_votacion[w.sesion_votacion_id].bill_id \in DOMAIN d.bills } }

\* the oldest votes instead of the newest: ORDER BY sv.fecha LIMIT 20
RecentFetchOldest(d, mp) ==
    LET rows == RecentRows(d, mp)
    IN  {Take(o, RECENT_LIMIT) : o \in OrdersAsc(rows, [r \in rows |-> r.fecha])}

\* ORDER BY sv.fecha DESC LIMIT 20
RecentFetch(d, mp) ==
    LET rows == RecentRows(d, mp)
    IN  {Take(o, RECENT_LIMIT) : o \in OrdersDesc(rows, [r \in rows |-> r.fecha])}

\* a title of exactly 100 characters cut as well: len(titulo) >= 100
TruncTitleAtLimit(titulo) ==
    IF Len(titulo) >= TITLE_LIMIT THEN SubSeq(titulo, 1, TITLE_LIMIT) \o ELLIPSIS ELSE titulo

\* titulo[:100] + "..." if len(titulo) > 100 else titulo
TruncTitle(titulo) ==
    IF Len(titulo) > TITLE_LIMIT THEN SubSeq(titulo, 1, TITLE_LIMIT) \o ELLIPSIS ELSE titulo

\* p["votaciones_recientes"]
VotacionesRecientes(d, mp) ==
    { [i \in 1..Len(rows) |->
          [bill_id |-> rows[i].bill_id, titulo |-> TruncTitle(rows[i].titulo),
           voto |-> Lower(rows[i].voto), fecha |-> rows[i].fecha]] :
      rows \in RecentFetch(d, mp) }

\* the dicts the loops can build for one row of the first SELECT
LegislatorEntries(d, row) ==
    { [id |-> row.mp_uid, nombre |-> row.nombre_completo, partido |-> row.partido,
       foto |-> row.url_foto, profesion |-> OrElse(row.profesion, NO_ESPECIFICADA),
       estadisticas_voto |-> s, votaciones_recientes |-> r] :
      s \in EstadisticasVoto(d, row.mp_uid), r \in VotacionesRecientes(d, row.mp_uid) }

\* the lists export_parlamentarios can return
ParlamentariosResults(d) ==
    UNION { SeqProduct([i \in 1..Len(o) |-> LegislatorEntries(d, o[i])]) : o \in ActiveOrders(d) }

(***************************************************************************)
(* export_bills                                                            *)
(***************************************************************************)
\* only the bills that carry a subject tag: FROM bills JOIN bill_materias
BillRowsWithMaterias(d) ==
    { [bill_id |-> b, titulo |-> d.bills[b].titulo, resumen |-> d.bills[b].resumen,
       fecha_ingreso |-> d.bills[b].fecha_ingreso, etapa |-> d.bills[b].etapa,
       resultado_final |-> d.bills[b].resultado_final,
       iniciativa |-> d.bills[b].iniciativa, origen |-> d.bills[b].origen] :
      b \in {x \in DOMAIN d.bills : \E bm \in d.bill_materias : bm.bill_id = x} }

\* SELECT bill_id, ... FROM bills
BillRows(d) ==
    { [bill_id |-> b, titulo |-> d.bills[b].titulo, resumen |-> d.bills[b].resumen,
       fecha_ingreso |-> d.bills[b].fecha_ingreso, etapa |-> d.bills[b].etapa,
       resultado_final |-> d.bills[b].resultado_final,
       iniciativa |-> d.bills[b].iniciativa, origen |-> d.bills[b].origen] :
      b \in DOMAIN d.bills }

\* ORDER BY fecha_ingreso DESC
BillOrders(d) == OrdersDesc(BillRows(d), [r \in BillRows(d) |-> r.fecha_ingreso])

\* the stage looked at before the final result
EstadoStageFirst(resultado, etapa) ==
    IF Truthy(etapa)
    THEN IF Contains(primer, Lower(Val(etapa))) THEN "Primer tramite"
         ELSE IF Contains(segundo, Lower(Val(etapa))) THEN "Segundo tramite"
         ELSE IF Contains(tercer, Lower(Val(etapa))) THEN "Tercer tramite"
         ELSE IF Contains(comision, Lower(Val(etapa))) THEN "En comision"
         ELSE "En tramitacion"
    ELSE IF Truthy(resultado)
    THEN IF Contains(aprob, Lower(Val(resultado))) THEN "Aprobado"
         ELSE IF Contains(rechaz, Lower(Val(resultado))) THEN "Rechazado"
         ELSE IF Contains(archiv, Lower(Val(resultado))) THEN "Archivado"
         ELSE "En tramitacion"
    ELSE "En tramitacion"

\* # Map estado
Estado(resultado, etapa) ==
    IF Truthy(resultado)
    THEN IF Contains(aprob, Lower(Val(resultado))) THEN "Aprobado"
         ELSE IF Contains(rechaz, Lower(Val(resultado))) THEN "Rechazado"
         ELSE IF Contains(archiv, Lower(Val(resultado))) THEN "Archivado"
         ELSE "En tramitacion"
    ELSE IF Truthy(etapa)
    THEN IF Contains(primer, Lower(Val(etapa))) THEN "Primer tramite"
         ELSE IF Contains(segundo, Lower(Val(etapa))) THEN "Segundo tramite"
         ELSE IF Contains(tercer, Lower(Val(etapa))) THEN "Tercer tramite"
         ELSE IF Contains(comision, Lower(Val(etapa))) THEN "En comision"
         ELSE "En tramitacion"
    ELSE "En tramitacion"

\* # Map camara from origen
Camara(origen) ==
    IF Truthy(origen) /\ Contains(senado, Lower(Val(origen))) THEN "Senado" ELSE "Diputados"

\* bills_dict[bill_id] = {...}
BillEntry(row) ==
    [id |-> row.bill_id, titulo |-> row.titulo, resumen |-> OrElse(row.resumen, row.titulo),
     fecha |-> row.fecha_ingreso, estado |-> Estado(row.resultado_final, row.etapa),
     tipo |-> OrElse(row.iniciativa, MOCION), camara |-> Camara(row.origen),
     materias |-> <<>>]

\* SELECT bm.bill_id, m.nombre FROM bill_materias bm JOIN dim_materias m ...
MateriaRows(d) ==
    { [rowid |-> bm.rowid, bill_id |-> bm.bill_id, nombre |-> d.dim_materias[bm.materia_id].nombre] :
      bm \in {x \in d.bill_materias : x.materia_id \in DOMAIN d.dim_materias} }

\* if bill_id in bills_dict: bills_dict[bill_id]["materias"].append(materia)
RECURSIVE AttachMaterias(_, _)
AttachMaterias(entries, rows) ==
    IF rows = <<>> THEN entries
    ELSE AttachMaterias(
            [i \in 1..Len(entries) |->
                IF entries[i].id = Head(rows).bill_id
                THEN [entries[i] EXCEPT !.materias = Append(@, Head(rows).nombre)]
                ELSE entries[i]],
            Tail(rows))

\* the lists export_bills can return
BillsResults(d) ==
    { AttachMaterias([i \in 1..Len(o) |-> BillEntry(o[i])], m) :
      o \in BillOrders(d), m \in Perms(MateriaRows(d)) }

(***************************************************************************)
(* export_embeddings                                                       *)
(***************************************************************************)
\* json.loads on a flat array of one-digit numbers: whether the text parses
JsonValid(s) ==
    /\ Len(s) >= 2
    /\ s[1] = "[" /\ s[Len(s)] = "]"
    /\ \/ Len(s) = 2
       \/ /\ Len(s) % 2 = 1
          /\ \A i \in 2..(Len(s) - 1) :
                IF i % 2 = 0 THEN IsIn(s[i], DIGITS) ELSE s[i] = ","

\* json.loads: the list the text denotes
JsonLoads(s) == [k \in 1..((Len(s) - 1) \div 2) |-> IndexOf(s[2 * k], DIGITS) - 1]

\* the lists export_embeddings can build, one per order of the unordered SELECT
EmbeddingsResults(d) ==
    { [i \in 1..Len(o) |-> [billId |-> o[i].bill_id, embedding |-> JsonLoads(o[i].embedding)]] :
      o \in Perms(d.bill_embeddings) }

\* json.loads raises on some row
EmbeddingsRaise(d) == \E r \in d.bill_embeddings : ~JsonValid(r.embedding)

(***************************************************************************)
(* export_metadata                                                         *)
(***************************************************************************)
\* dict[key] = value on a dict kept as the sequence of its items, in insertion order
DictSet(dict, key, value) ==
    IF \E i \in 1..Len(dict) : dict[i].key = key
    THEN [i \in 1..Len(dict) |-> IF dict[i].key = key THEN [key |-> key, value |-> value] ELSE dict[i]]
    ELSE Append(dict, [key |-> key, value |-> value])

DictHas(dict, key) == \E i \in 1..Len(dict) : dict[i].key = key
DictGet(dict, key) == dict[CHOOSE i \in 1..Len(dict) : dict[i].key = key].value

\* party_stats[info["nombre"]] = {...} for each row of dim_partidos
RECURSIVE SeedParties(_, _, _)
SeedParties(party_stats, d, ids) ==
    IF ids = <<>> THEN party_stats
    ELSE SeedParties(
            DictSet(party_stats, d.dim_partidos[Head(ids)].nombre_partido,
                    [sigla |-> d.dim_partidos[Head(ids)].sigla, miembros |-> 0,
                     cohesion |-> COHESION_DEFAULT]),
            d, Tail(ids))

\* a party that a legislator names and the directory does not, with a member count that forgets the legislator
SyntheticPartyUncounted == [sigla |-> "", miembros |-> 0, cohesion |-> COHESION_SYNTHETIC]

\* party_stats[partido] = {"sigla": "", "miembros": 1, "cohesion": 0.80}
SyntheticParty == [sigla |-> "", miembros |-> 1, cohesion |-> COHESION_SYNTHETIC]

\* # Count party members from parlamentarios
RECURSIVE CountMembers(_, _)
CountMembers(party_stats, ps) ==
    IF ps = <<>> THEN party_stats
    ELSE LET partido == Some(Head(ps).partido)
         IN  CountMembers(
                IF DictHas(party_stats, partido)
                THEN DictSet(party_stats, partido,
                             [DictGet(party_stats, partido) EXCEPT !.miembros = @ + 1])
                ELSE DictSet(party_stats, partido, SyntheticParty),
                Tail(ps))

\* SELECT DISTINCT nombre FROM dim_materias ORDER BY nombre
MateriaNames(d) ==
    LET names == {d.dim_materias[m].nombre : m \in DOMAIN d.dim_materias}
    IN  CHOOSE s \in Perms(names) : \A i \in 1..Len(s) : \A j \in (i + 1)..Len(s) : TextLess(s[i], s[j])

\* the dicts export_metadata can build from the lists main hands it
MetadataResults(d, ps, bs) ==
    { [partidos |-> CountMembers(SeedParties(<<>>, d, ids), ps),
       materias |-> Take(MateriaNames(d), MATERIAS_LIMIT),
       stats |-> [total_parlamentarios |-> Len(ps), total_bills |-> Len(bs),
                  periodo |-> "2022-2026"]] :
      ids \in Perms(DOMAIN d.dim_partidos) }

(***************************************************************************)
(* main                                                                    *)
(***************************************************************************)
Exporters == <<"export_parlamentarios", "export_bills", "export_embeddings", "export_metadata">>

\* the statement main executes after `step' returns
NextStep(step) ==
    IF step = Exporters[Len(Exporters)] THEN "done"
    ELSE Exporters[IndexOf(step, Exporters) + 1]

\* an exception that is swallowed: main goes on with the next exporter
OnExceptionSwallowed(step) == NextStep(step)

\* an exception raised inside `step' is caught nowhere: main is left and the process ends
OnException(step) == "failed"

NoFiles == [diputados |-> None, bills |-> None, embeddings |-> None, metadata |-> None]

Init ==
    /\ \E P \in Scenarios : db = Store(P)
    /\ pc = "idle"
    /\ run = 0
    /\ files = NoFiles
    /\ prev = NoFiles
    /\ prevOk = FALSE
    /\ parlamentarios = <<>>
    /\ bills = <<>>
    /\ written = {}
    /\ log = <<>>

\* the script is started: main() up to OUTPUT_DIR.mkdir
Main ==
    /\ pc \in {"idle", "done", "failed"}
    /\ run < MaxRuns
    /\ run' = run + 1
    /\ pc' = Exporters[1]
    /\ prev' = files
    /\ prevOk' = (pc = "done")
    /\ parlamentarios' = <<>>
    /\ bills' = <<>>
    /\ written' = {}
    /\ log' = <<>>
    /\ UNCHANGED <<db, files>>

\* parlamentarios = export_parlamentarios()
export_parlamentarios ==
    /\ pc = "export_parlamentarios"
    /\ \E res \in ParlamentariosResults(db) :
        /\ parlamentarios' = res
        /\ files' = [files EXCEPT !.diputados = Some(res)]
    /\ written' = written \cup {"diputados.json"}
    /\ log' = Append(log, [step |-> pc, ok |-> TRUE])
    /\ pc' = NextStep(pc)
    /\ UNCHANGED <<db, run, prev, prevOk, bills>>

\* bills = export_bills()
export_bills ==
    /\ pc = "export_bills"
    /\ \E res \in BillsResults(db) :
        /\ bills' = res
        /\ files' = [files EXCEPT !.bills = Some(res)]
    /\ written' = written \cup {"bills.json"}
    /\ log' = Append(log, [step |-> pc, ok |-> TRUE])
    /\ pc' = NextStep(pc)
    /\ UNCHANGED <<db, run, prev, prevOk, parlamentarios>>

\* embeddings, emb_meta = export_embeddings()
export_embeddings ==
    /\ pc = "export_embeddings"
    /\ IF EmbeddingsRaise(db)
       THEN /\ pc' = OnException(pc)
            /\ log' = Append(log, [step |-> pc, ok |-> FALSE])
            /\ UNCHANGED <<files, written>>
       ELSE /\ \E res \in EmbeddingsResults(db) :
                files' = [files EXCEPT !.embeddings = Some(res)]
            /\ written' = written \cup {"embeddings.json"}
            /\ log' = Append(log, [step |-> pc, ok |-> TRUE])
            /\ pc' = NextStep(pc)
    /\ UNCHANGED <<db, run, prev, prevOk, parlamentarios, bills>>

\* metadata = export_metadata(parlamentarios, bills)
export_metadata ==
    /\ pc = "export_metadata"
    /\ \E res \in MetadataResults(db, parlamentarios, bills) :
        files' = [files EXCEPT !.metadata = Some(res)]
    /\ written' = written \cup {"metadata.json"}
    /\ log' = Append(log, [step |-> pc, ok |-> TRUE])
    /\ pc' = NextStep(pc)
    /\ UNCHANGED <<db, run, prev, prevOk, parlamentarios, bills>>

\* the store or the output directory fails the running exporter (sqlite3.Error on
\* connect or execute, OSError on open) before it writes its file
Raise ==
    /\ IsIn(pc, Exporters)
    /\ pc' = OnException(pc)
    /\ log' = Append(log, [step |-> pc, ok |-> FALSE])
    /\ UNCHANGED <<db, run, files, prev, prevOk, parlamentarios, bills, written>>

Next ==
    \/ Main
    \/ export_parlamentarios
    \/ export_bills
    \/ export_embeddings
    \/ export_metadata
    \/ Raise

Spec == Init /\ [][Next]_vars

(***************************************************************************)
(* What the claims speak of                                                *)
(***************************************************************************)
\* the content of a file, the empty list while the file does not exist
Content(f) == IF IsNull(f) THEN <<>> ELSE Val(f)
Diputados == Content(files.diputados)
BillsFile == Content(files.bills)

Categories == {"a_favor", "en_contra", "abstencion", "pareo"}

\* the category of a raw label as the specification words it: the label, compared
\* case-insensitively, contains favor, contra, absten or pareo; the first that matches wins
LabelCategory(voto) ==
    IF Contains(favor, Lower(voto)) THEN "a_favor"
    ELSE IF Contains(contra, Lower(voto)) THEN "en_contra"
    ELSE IF Contains(absten, Lower(voto)) THEN "abstencion"
    ELSE IF Contains(pareo, Lower(voto)) THEN "pareo"
    ELSE "none"

\* the vote records of a legislator
VotesOf(mp) == {v \in db.votos_parlamentario : v.mp_uid = mp}

\* the vote records of a legislator whose session has a row
VotesInSession(mp) ==
    {v \in VotesOf(mp) : v.sesion_votacion_id \in DOMAIN db.sesiones_votacion}

\* the vote records of a legislator whose session has a row and names a bill that has a row
VotesOnBills(mp) ==
    {v \in VotesInSession(mp) :
        db.sesiones_votacion[v.sesion_votacion_id].bill_id \in DOMAIN db.bills}

FechaOf(v) == db.sesiones_votacion[v.sesion_votacion_id].fecha

(***************************************************************************)
(* C1                                                                      *)
(***************************************************************************)
\* C1: for every exported legislator and each of the four categories, the tally in
\* estadisticas_voto equals the number of the legislator's vote records whose label
\* falls in the category, also when several distinct raw labels fall in one category.
C1_TallyCountsVotes ==
    \A i \in 1..Len(Diputados) : \A c \in Categories :
        Diputados[i].estadisticas_voto[c]
            = Cardinality({v \in VotesOf(Diputados[i].id) : LabelCategory(v.voto) = c})

(***************************************************************************)
(* C2                                                                      *)
(***************************************************************************)
\* a field is present when it is neither NULL nor the empty text
Present(o) == o # None /\ o # Some(<<>>)

ResultLabel(r) ==
    IF Contains(aprob, Lower(r)) THEN "Aprobado"
    ELSE IF Contains(rechaz, Lower(r)) THEN "Rechazado"
    ELSE IF Contains(archiv, Lower(r)) THEN "Archivado"
    ELSE "En tramitacion"

StageLabel(e) ==
    IF Contains(primer, Lower(e)) THEN "Primer tramite"
    ELSE IF Contains(segundo, Lower(e)) THEN "Segundo tramite"
    ELSE IF Contains(tercer, Lower(e)) THEN "Tercer tramite"
    ELSE IF Contains(comision, Lower(e)) THEN "En comision"
    ELSE "En tramitacion"

\* C2: every exported bill carries one status label, decided by resultado_final alone
\* when it is present (neither NULL nor empty) whatever etapa holds, by etapa only when
\* resultado_final is absent, and 'En tramitacion' when neither matches; a
\* resultado_final that contains 'aprob' always gives 'Aprobado'.
C2_EstadoByPriority ==
    \A i \in 1..Len(BillsFile) :
        LET b == BillsFile[i]
            r == db.bills[b.id].resultado_final
            e == db.bills[b.id].etapa
        IN  /\ Present(r) => b.estado = ResultLabel(Val(r))
            /\ (~Present(r) /\ Present(e)) => b.estado = StageLabel(Val(e))
            /\ (~Present(r) /\ ~Present(e)) => b.estado = "En tramitacion"
            /\ (Present(r) /\ Contains(aprob, Lower(Val(r)))) => b.estado = "Aprobado"

\* a bill is exported whose resultado_final decides against an etapa that would match
C2_Witness ==
    \E i \in 1..Len(BillsFile) :
        /\ Present(db.bills[BillsFile[i].id].resultado_final)
        /\ Present(db.bills[BillsFile[i].id].etapa)
        /\ StageLabel(Val(db.bills[BillsFile[i].id].etapa)) # "En tramitacion"
        /\ BillsFile[i].estado = "Aprobado"

(***************************************************************************)
(* C3                                                                      *)
(***************************************************************************)
\* C3: after a complete run, every bill_id of any exported legislator's
\* votaciones_recientes is the id of an entry of bills.json.
C3_RecentBillsExported ==
    pc = "done" =>
        \A i \in 1..Len(Diputados) :
            \A k \in 1..Len(Diputados[i].votaciones_recientes) :
                \E j \in 1..Len(BillsFile) :
                    BillsFile[j].id = Diputados[i].votaciones_recientes[k].bill_id

\* a run is complete and exports a legislator with recent votes who also voted in a
\* session whose bill has no row
C3_Witness ==
    /\ pc = "done"
    /\ \E i \in 1..Len(Diputados) :
        /\ Diputados[i].votaciones_recientes # <<>>
        /\ VotesInSession(Diputados[i].id) # VotesOnBills(Diputados[i].id)

FileOf(step) ==
    IF step = "export_parlamentarios" THEN "diputados.json"
    ELSE IF step = "export_bills" THEN "bills.json"
    ELSE IF step = "export_embeddings" THEN "embeddings.json"
    ELSE "metadata.json"

\* C5: the exporters run in the order legislators, bills, embeddings, metadata, none
\* runs after one that failed, and when export_embeddings fails diputados.json and
\* bills.json are written by this run and metadata.json is not.
C5_StopsAtFirstFailure ==
    /\ \A i \in 1..Len(log) :
        /\ i <= Len(Exporters) /\ log[i].step = Exporters[i]
        /\ i < Len(log) => log[i].ok
    /\ written = {FileOf(log[i].step) : i \in {j \in 1..Len(log) : log[j].ok}}
    /\ pc = "failed" => (log # <<>> /\ ~log[Len(log)].ok)
    /\ (pc = "failed" /\ log[Len(log)].step = "export_embeddings") =>
        /\ {"diputados.json", "bills.json"} \subseteq written
        /\ files.diputados = Some(parlamentarios)
        /\ files.bills = Some(bills)
        /\ "metadata.json" \notin written
        /\ files.metadata = prev.metadata

\* the second run fails in export_embeddings, a metadata.json of the first run being there
C5_Witness ==
    /\ pc = "failed"
    /\ log[Len(log)].step = "export_embeddings"
    /\ run > 1
    /\ ~IsNull(prev.metadata)

(***************************************************************************)
(* C6                                                                      *)
(***************************************************************************)
\* votaciones_recientes is cut at the limit and ordered by session date, newest first
RecentShape(p) ==
    LET r == p.votaciones_recientes
    IN  /\ Len(r) <= RECENT_LIMIT
        /\ \A i \in 1..Len(r) : \A j \in (i + 1)..Len(r) : r[i].fecha >= r[j].fecha

\* votaciones_recientes holds Min(20, n) entries, each a vote of V, and every vote of V
\* held on a day later than the oldest entry is among the entries
MostRecentOf(p, n, V) ==
    LET r == p.votaciones_recientes
    IN  /\ Len(r) = Min(RECENT_LIMIT, n)
        /\ \A f \in {r[i].fecha : i \in 1..Len(r)} :
              Cardinality({i \in 1..Len(r) : r[i].fecha = f})
                  <= Cardinality({v \in V : FechaOf(v) = f})
        /\ \A v \in V :
              (r # <<>> /\ FechaOf(v) > r[Len(r)].fecha) =>
                  Cardinality({i \in 1..Len(r) : r[i].fecha = FechaOf(v)})
                      = Cardinality({w \in V : FechaOf(w) = FechaOf(v)})

\* C6 as stated: votaciones_recientes has at most 20 entries, is ordered by session date
\* descending, and has Min(20, n) entries, n the number of votes the legislator cast,
\* no vote left out having a session date later than a vote that is included.
C6_RecentOfAllVotesCast ==
    \A i \in 1..Len(Diputados) :
        /\ RecentShape(Diputados[i])
        /\ MostRecentOf(Diputados[i], Cardinality(VotesOf(Diputados[i].id)),
                        VotesInSession(Diputados[i].id))

\* C6 amended: votaciones_recientes has at most 20 entries, is ordered by session date
\* descending, and consists of the most recent of the legislator's votes whose session
\* has a row and names a bill that has a row: Min(20, n) entries, n the number of those
\* votes, none of them left out being later than one included.
C6_RecentOfVotesOnBills ==
    \A i \in 1..Len(Diputados) :
        /\ RecentShape(Diputados[i])
        /\ MostRecentOf(Diputados[i], Cardinality(VotesOnBills(Diputados[i].id)),
                        VotesOnBills(Diputados[i].id))

\* a legislator is exported who cast more votes than the limit, the cut falling between
\* votes of the same day
C6_Witness ==
    \E i \in 1..Len(Diputados) :
        LET r == Diputados[i].votaciones_recientes
        IN  /\ Cardinality(VotesOnBills(Diputados[i].id)) > RECENT_LIMIT
            /\ Len(r) = RECENT_LIMIT
            /\ Cardinality({v \in VotesOnBills(Diputados[i].id) : FechaOf(v) = r[Len(r)].fecha})
                  > Cardinality({k \in 1..Len(r) : r[k].fecha = r[Len(r)].fecha})

(***************************************************************************)
(* C7                                                                      *)
(***************************************************************************)
\* C7: estadisticas_voto.total is the sum of the four tallies, never exceeds the number
\* of votes the legislator cast, and is strictly lower when some vote carries a label
\* that matches no category.
C7_TotalIsSum ==
    \A i \in 1..Len(Diputados) :
        LET s == Diputados[i].estadisticas_voto
            cast == VotesOf(Diputados[i].id)
        IN  /\ s.total = s.a_favor + s.en_contra + s.abstencion + s.pareo
            /\ s.total <= Cardinality(cast)
            /\ (\E v \in cast : LabelCategory(v.voto) = "none") => s.total < Cardinality(cast)

\* a legislator is exported with paired votes, matched votes and an unmatched one
C7_Witness ==
    \E i \in 1..Len(Diputados) :
        /\ Diputados[i].estadisticas_voto.pareo > 0
        /\ Diputados[i].estadisticas_voto.a_favor > 0
        /\ \E v \in VotesOf(Diputados[i].id) : LabelCategory(v.voto) = "none"

(***************************************************************************)
(* C8                                                                      *)
(***************************************************************************)
\* C8: a stored title longer than 100 characters is exported as its first 100
\* characters followed by '...' (103 characters); a stored title of 100 characters or
\* fewer is exported unchanged.
C8_TitleTruncation ==
    \A i \in 1..Len(Diputados) :
        \A k \in 1..Len(Diputados[i].votaciones_recientes) :
            LET e == Diputados[i].votaciones_recientes[k]
                t == db.bills[e.bill_id].titulo
            IN  IF Len(t) > TITLE_LIMIT
                THEN /\ Len(e.titulo) = TITLE_LIMIT + 3
                     /\ \A c \in 1..TITLE_LIMIT : e.titulo[c] = t[c]
                     /\ \A c \in 1..3 : e.titulo[TITLE_LIMIT + c] = "."
                ELSE e.titulo = t

\* a recent vote is exported on a bill whose stored title is longer than the limit
C8_Witness ==
    \E i \in 1..Len(Diputados) :
        \E k \in 1..Len(Diputados[i].votaciones_recientes) :
            /\ Len(db.bills[Diputados[i].votaciones_recientes[k].bill_id].titulo) > TITLE_LIMIT
            /\ Len(Diputados[i].votaciones_recientes[k].titulo) = TITLE_LIMIT + 3

(***************************************************************************)
(* C9                                                                      *)
(***************************************************************************)
\* the legislators with a vote record in a session held on or after the cutoff
VotedSinceCutoff ==
    {m \in DOMAIN db.dim_parlamentario :
        \E v \in VotesInSession(m) : FechaOf(v) >= CUTOFF}

\* C9: once diputados.json is written it holds exactly one entry for each legislator
\* with a vote record in a session dated on or after 2024-01-01, and no other entry.
C9_ActiveLegislatorsOnce ==
    ~IsNull(files.diputados) =>
        /\ {Diputados[i].id : i \in 1..Len(Diputados)} = VotedSinceCutoff
        /\ Len(Diputados) = Cardinality(VotedSinceCutoff)

\* the export holds a legislator with several qualifying votes and leaves out one
\* who voted before the cutoff only
C9_Witness ==
    /\ ~IsNull(files.diputados)
    /\ \E i \in 1..Len(Diputados) :
        Cardinality({v \in VotesInSession(Diputados[i].id) : FechaOf(v) >= CUTOFF}) > 1
    /\ \E m \in DOMAIN db.dim_parlamentario :
        m \notin VotedSinceCutoff /\ VotesInSession(m) # {}

(***************************************************************************)
(* C10                                                                     *)
(***************************************************************************)
RECURSIVE SumMiembros(_)
SumMiembros(dict) ==
    IF dict = <<>> THEN 0 ELSE Head(dict).value.miembros + SumMiembros(Tail(dict))

DirectoryNames == {db.dim_partidos[i].nombre_partido : i \in DOMAIN db.dim_partidos}

\* C10: after a complete run, every party of metadata.json counts the exported
\* legislators of that party, every exported legislator's party is a key, a party the
\* directory does not hold has the empty sigla and cohesion 0.80, and the member counts
\* add up to stats.total_parlamentarios, the number of exported legislators.
C10_PartyMembers ==
    pc = "done" =>
        LET md == Val(files.metadata)
            ps == md.partidos
        IN  /\ \A i \in 1..Len(ps) : \A j \in 1..Len(ps) : ps[i].key = ps[j].key => i = j
            /\ \A i \in 1..Len(ps) :
                  ps[i].value.miembros
                      = Cardinality({k \in 1..Len(Diputados) : Some(Diputados[k].partido) = ps[i].key})
            /\ \A k \in 1..Len(Diputados) : DictHas(ps, Some(Diputados[k].partido))
            /\ \A i \in 1..Len(ps) :
                  ps[i].key \notin DirectoryNames =>
                      ps[i].value.sigla = "" /\ ps[i].value.cohesion = COHESION_SYNTHETIC
            /\ DirectoryNames \subseteq {ps[i].key : i \in 1..Len(ps)}
            /\ SumMiembros(ps) = md.stats.total_parlamentarios
            /\ md.stats.total_parlamentarios = Len(Diputados)

\* a run is complete with a party made for a legislator, a directory party that has
\* two members and a directory party that has none
C10_Witness ==
    /\ pc = "done"
    /\ \E i \in 1..Len(Val(files.metadata).partidos) :
        /\ Val(files.metadata).partidos[i].key \notin DirectoryNames
        /\ Val(files.metadata).partidos[i].value.miembros > 0
    /\ \E i \in 1..Len(Val(files.metadata).partidos) :
        Val(files.metadata).partidos[i].value.miembros = 0
    /\ \E i \in 1..Len(Val(files.metadata).partidos) :
        Val(files.metadata).partidos[i].value.miembros > 1

====
